---- MODULE Spec2Model ----
(***************************************************************************)
(* A model of the Modbus TCP server of server.go: the server life cycle    *)
(* (Start, Stop), the accept loop with its admission control, the          *)
(* per-connection workers, and the request dispatcher of handleTransport.  *)
(*                                                                         *)
(* Goroutines are modelled as processes with a program counter.  The       *)
(* mutex ms.lock is the variable lock, which names its holder.  Reads of   *)
(* ms.started and ms.tcpListener made by the accept loop without the lock  *)
(* are modelled as reads of the current value at the step they happen.     *)
(***************************************************************************)
EXTENDS Integers, Sequences, FiniteSets, TLC

(***************************************************************************)
(* Bounds of the model.                                                    *)
(***************************************************************************)
\* ServerConfiguration.MaxClients, the configured connection limit
MaxClients == 2
\* connections the clients attempt beyond the connection limit
ExtraConns == 1
\* number of times net.Listen succeeds (listeners and accept loops created)
MaxStarts == 2

MaxConns == MaxClients + ExtraConns
Conns == 1 .. MaxConns
Loops == 1 .. MaxStarts

(***************************************************************************)
(* Function codes and exception codes.                                     *)
(***************************************************************************)
FC_READ_COILS == 1
FC_READ_DISCRETE_INPUTS == 2
FC_READ_HOLDING_REGISTERS == 3
FC_READ_INPUT_REGISTERS == 4
FC_WRITE_SINGLE_COIL == 5
FC_WRITE_SINGLE_REGISTER == 6
FC_WRITE_MULTIPLE_COILS == 15
FC_WRITE_MULTIPLE_REGISTERS == 16

EX_ILLEGAL_FUNCTION == 1
EX_ILLEGAL_DATA_ADDRESS == 2
EX_ILLEGAL_DATA_VALUE == 3
EX_SERVER_DEVICE_FAILURE == 4

\* Go errors, by name.  ErrNil is the nil error; ErrOther stands for any
\* error of the handler that is no modbus error.
ErrNil == "nil"
ErrProtocolError == "ErrProtocolError"
ErrIllegalFunction == "ErrIllegalFunction"
ErrIllegalDataAddress == "ErrIllegalDataAddress"
ErrIllegalDataValue == "ErrIllegalDataValue"
ErrServerDeviceFailure == "ErrServerDeviceFailure"
ErrOther == "ErrOther"
ErrIO == "ErrIO"

\* mapErrorToExceptionCode: modbus errors map to their exception code, any
\* other error to server device failure.
mapErrorToExceptionCode(err) ==
    CASE err = ErrIllegalFunction -> EX_ILLEGAL_FUNCTION
      [] err = ErrIllegalDataAddress -> EX_ILLEGAL_DATA_ADDRESS
      [] err = ErrIllegalDataValue -> EX_ILLEGAL_DATA_VALUE
      [] err = ErrServerDeviceFailure -> EX_SERVER_DEVICE_FAILURE
      [] OTHER -> EX_SERVER_DEVICE_FAILURE

(***************************************************************************)
(* Byte order and bit packing helpers.  Bytes are 0..255, sequences are    *)
(* 1-based: payload[0:2] of the code is <<p[1], p[2]>>.                    *)
(***************************************************************************)
Pow2(n) == 2 ^ n

uint8(v) == v % 256

uint16(v) == v % 65536

\* bytesToUint16(BIG_ENDIAN, in)
bytesToUint16(in) == in[1] * 256 + in[2]

\* uint16ToBytes(BIG_ENDIAN, in)
uint16ToBytes(in) == << (in \div 256) % 256, in % 256 >>

\* uint16sToBytes(BIG_ENDIAN, in): each value as two bytes, in order
uint16sToBytes(in) ==
    [ k \in 1 .. 2 * Len(in) |->
        IF k % 2 = 1 THEN (in[(k + 1) \div 2] \div 256) % 256
                     ELSE in[k \div 2] % 256 ]

\* bytesToUint16s(BIG_ENDIAN, in): one value per pair of bytes
bytesToUint16s(in) ==
    [ k \in 1 .. Len(in) \div 2 |-> in[2 * k - 1] * 256 + in[2 * k] ]

\* the byte that holds bits 8*(j-1) .. 8*(j-1)+7 of in, least significant
\* bit first, missing bits zero
RECURSIVE PackByte(_, _, _)
PackByte(in, j, b) ==
    IF b > 7 THEN 0
    ELSE (IF 8 * (j - 1) + b + 1 <= Len(in) /\ in[8 * (j - 1) + b + 1]
          THEN Pow2(b) ELSE 0) + PackByte(in, j, b + 1)

\* encodeBools(in): bit i of the input lives at byte i/8, bit i%8
encodeBools(in) ==
    [ j \in 1 .. (Len(in) + 7) \div 8 |-> PackByte(in, j, 0) ]

\* decodeBools(quantity, in): the first quantity bits of in
decodeBools(quantity, in) ==
    [ k \in 1 .. quantity |->
        (in[((k - 1) \div 8) + 1] \div Pow2((k - 1) % 8)) % 2 = 1 ]

\* payload[from:] of the code (from is 0-based)
SliceFrom(s, from) == SubSeq(s, from + 1, Len(s))

(***************************************************************************)
(* PDUs, the request handler and the dispatcher of handleTransport.        *)
(* A nil pointer or nil slice is the empty sequence; a non-nil PDU p is    *)
(* the one-element sequence <<p>>.                                         *)
(***************************************************************************)
Pdu(unitId, functionCode, payload) ==
    [unitId |-> unitId, functionCode |-> functionCode, payload |-> payload]

\* What a call of the user's RequestHandler may return: an error, and a
\* result whose length need not be the requested quantity.  count is the
\* length of the result relative to the quantity, pattern its content.
HandlerOutcome(err, count, pattern) ==
    [err |-> err, count |-> count, pattern |-> pattern]

ResultLen(h, quantity) ==
    CASE h.count = "exact" -> quantity
      [] h.count = "short" -> quantity - 1
      [] h.count = "long" -> quantity + 1
      [] OTHER -> 0

\* the []bool a coil or discrete input handler returns
HandlerBools(h, quantity) ==
    [ k \in 1 .. ResultLen(h, quantity) |->
        CASE h.pattern = "ones" -> TRUE
          [] h.pattern = "mixed" -> (k % 3 = 1)
          [] OTHER -> FALSE ]

\* the []uint16 a register handler returns
HandlerRegs(h, quantity) ==
    [ k \in 1 .. ResultLen(h, quantity) |->
        CASE h.pattern = "ones" -> 65535
          [] h.pattern = "mixed" -> (k * 257) % 65536
          [] OTHER -> 0 ]

\* one invocation of the handler, as the handler sees it
Call(fn, unitId, addr, quantity, isWrite, args) ==
    [fn |-> fn, unitId |-> unitId, addr |-> addr, quantity |-> quantity,
     isWrite |-> isWrite, args |-> args]

\* the invocations made while a request was dispatched, each with what the
\* handler returned
Returned(calls, h) ==
    [ k \in 1 .. Len(calls) |-> [call |-> calls[k], ret |-> h] ]

\* the variables err and res when the switch is left, and the handler
\* invocations made on the way
Outcome(err, res, calls) == [err |-> err, res |-> res, calls |-> calls]

\* an address check that lets a range end one past the last address
PastLastAddressByTwo(addr, quantity) ==
    addr + quantity - 1 > 65536

\* uint32(addr) + uint32(quantity) - 1 > 0xffff.  The sum is computed in 32
\* bits from two 16-bit values and is evaluated only for quantity >= 1, so
\* it neither wraps around nor falls below zero.
PastLastAddress(addr, quantity) ==
    addr + quantity - 1 > 65535

\* a byte count that forgets the byte of the last, incomplete group of 8
ByteCountWhole(resCount) == uint8(resCount \div 8)

\* res.payload[0] = uint8(resCount / 8); if resCount % 8 != 0 { ++ }
ByteCount(resCount) ==
    uint8(uint8(resCount \div 8) + (IF resCount % 8 # 0 THEN 1 ELSE 0))

\* a tail check that is only a lower bound on the bytes present
TailTooShort(payload, expectedLen) == Len(payload) - 5 < expectedLen

\* len(req.payload) - 5 != expectedLen
TailMismatch(payload, expectedLen) == Len(payload) - 5 # expectedLen

\* case FC_READ_COILS, FC_READ_DISCRETE_INPUTS
ReadBitsCase(req, h) ==
    IF Len(req.payload) # 4 THEN Outcome(ErrProtocolError, <<>>, <<>>)
    ELSE
    LET addr == bytesToUint16(SubSeq(req.payload, 1, 2))
        quantity == bytesToUint16(SubSeq(req.payload, 3, 4))
        call == IF req.functionCode = FC_READ_COILS
                THEN Call("HandleCoils", req.unitId, addr, quantity, FALSE, <<>>)
                ELSE Call("HandleDiscreteInputs", req.unitId, addr, quantity,
                          FALSE, <<>>)
        coils == HandlerBools(h, quantity)
        resCount == Len(coils)
        byteCount == ByteCount(resCount)
    IN  IF quantity > 2000 \/ quantity = 0
        THEN Outcome(ErrProtocolError, <<>>, <<>>)
        ELSE IF PastLastAddress(addr, quantity)
        THEN Outcome(ErrIllegalDataAddress, <<>>, <<>>)
        ELSE IF h.err = ErrNil /\ resCount # quantity
        THEN Outcome(ErrServerDeviceFailure, <<>>, <<call>>)
        ELSE IF h.err # ErrNil
        THEN Outcome(h.err, <<>>, <<call>>)
        ELSE Outcome(ErrNil,
                     << Pdu(req.unitId, req.functionCode,
                            <<byteCount>> \o encodeBools(coils)) >>,
                     <<call>>)

\* case FC_WRITE_SINGLE_COIL
WriteSingleCoilCase(req, h) ==
    IF Len(req.payload) # 4 THEN Outcome(ErrProtocolError, <<>>, <<>>)
    ELSE
    LET addr == bytesToUint16(SubSeq(req.payload, 1, 2))
        call == Call("HandleCoils", req.unitId, addr, 1, TRUE,
                     << req.payload[3] = 255 >>)
    IN  IF (req.payload[3] # 255 /\ req.payload[3] # 0) \/ req.payload[4] # 0
        THEN Outcome(ErrProtocolError, <<>>, <<>>)
        ELSE IF h.err # ErrNil
        THEN Outcome(h.err, <<>>, <<call>>)
        ELSE Outcome(ErrNil,
                     << Pdu(req.unitId, req.functionCode,
                            uint16ToBytes(addr)
                              \o << req.payload[3], req.payload[4] >>) >>,
                     <<call>>)

\* case FC_WRITE_MULTIPLE_COILS
WriteMultipleCoilsCase(req, h) ==
    IF Len(req.payload) < 6 THEN Outcome(ErrProtocolError, <<>>, <<>>)
    ELSE
    LET addr == bytesToUint16(SubSeq(req.payload, 1, 2))
        quantity == bytesToUint16(SubSeq(req.payload, 3, 4))
        expectedLen == (quantity \div 8) + (IF quantity % 8 # 0 THEN 1 ELSE 0)
        call == Call("HandleCoils", req.unitId, addr, quantity, TRUE,
                     decodeBools(quantity, SliceFrom(req.payload, 5)))
    IN  IF quantity > 1968 \/ quantity = 0
        THEN Outcome(ErrProtocolError, <<>>, <<>>)
        ELSE IF PastLastAddress(addr, quantity)
        THEN Outcome(ErrIllegalDataAddress, <<>>, <<>>)
        ELSE IF req.payload[5] # uint8(expectedLen)
        THEN Outcome(ErrProtocolError, <<>>, <<>>)
        ELSE IF TailMismatch(req.payload, expectedLen)
        THEN Outcome(ErrProtocolError, <<>>, <<>>)
        ELSE IF h.err # ErrNil
        THEN Outcome(h.err, <<>>, <<call>>)
        ELSE Outcome(ErrNil,
                     << Pdu(req.unitId, req.functionCode,
                            uint16ToBytes(addr) \o uint16ToBytes(quantity)) >>,
                     <<call>>)

\* case FC_READ_HOLDING_REGISTERS, FC_READ_INPUT_REGISTERS
ReadRegistersCase(req, h) ==
    IF Len(req.payload) # 4 THEN Outcome(ErrProtocolError, <<>>, <<>>)
    ELSE
    LET addr == bytesToUint16(SubSeq(req.payload, 1, 2))
        quantity == bytesToUint16(SubSeq(req.payload, 3, 4))
        call == IF req.functionCode = FC_READ_HOLDING_REGISTERS
                THEN Call("HandleHoldingRegisters", req.unitId, addr, quantity,
                          FALSE, <<>>)
                ELSE Call("HandleInputRegisters", req.unitId, addr, quantity,
                          FALSE, <<>>)
        regs == HandlerRegs(h, quantity)
        resCount == Len(regs)
    IN  IF quantity > 125 \/ quantity = 0
        THEN Outcome(ErrProtocolError, <<>>, <<>>)
        ELSE IF PastLastAddress(addr, quantity)
        THEN Outcome(ErrIllegalDataAddress, <<>>, <<>>)
        ELSE IF h.err = ErrNil /\ resCount # quantity
        THEN Outcome(ErrServerDeviceFailure, <<>>, <<call>>)
        ELSE IF h.err # ErrNil
        THEN Outcome(h.err, <<>>, <<call>>)
        ELSE Outcome(ErrNil,
                     << Pdu(req.unitId, req.functionCode,
                            << uint8(resCount * 2) >> \o uint16sToBytes(regs)) >>,
                     <<call>>)

\* a case that leaves the switch without having built its response
WriteSingleRegisterCaseNoResponse(req, h) ==
    IF Len(req.payload) # 4 THEN Outcome(ErrProtocolError, <<>>, <<>>)
    ELSE
    LET addr == bytesToUint16(SubSeq(req.payload, 1, 2))
        value == bytesToUint16(SubSeq(req.payload, 3, 4))
        call == Call("HandleHoldingRegisters", req.unitId, addr, 1, TRUE,
                     <<value>>)
    IN  Outcome(h.err, <<>>, <<call>>)

\* case FC_WRITE_SINGLE_REGISTER
WriteSingleRegisterCase(req, h) ==
    IF Len(req.payload) # 4 THEN Outcome(ErrProtocolError, <<>>, <<>>)
    ELSE
    LET addr == bytesToUint16(SubSeq(req.payload, 1, 2))
        value == bytesToUint16(SubSeq(req.payload, 3, 4))
        call == Call("HandleHoldingRegisters", req.unitId, addr, 1, TRUE,
                     <<value>>)
    IN  IF h.err # ErrNil
        THEN Outcome(h.err, <<>>, <<call>>)
        ELSE Outcome(ErrNil,
                     << Pdu(req.unitId, req.functionCode,
                            uint16ToBytes(addr) \o uint16ToBytes(value)) >>,
                     <<call>>)

\* case FC_WRITE_MULTIPLE_REGISTERS
WriteMultipleRegistersCase(req, h) ==
    IF Len(req.payload) < 6 THEN Outcome(ErrProtocolError, <<>>, <<>>)
    ELSE
    LET addr == bytesToUint16(SubSeq(req.payload, 1, 2))
        quantity == bytesToUint16(SubSeq(req.payload, 3, 4))
        expectedLen == quantity * 2
        call == Call("HandleHoldingRegisters", req.unitId, addr, quantity, TRUE,
                     bytesToUint16s(SliceFrom(req.payload, 5)))
    IN  IF quantity > 123 \/ quantity = 0
        THEN Outcome(ErrProtocolError, <<>>, <<>>)
        ELSE IF PastLastAddress(addr, quantity)
        THEN Outcome(ErrIllegalDataAddress, <<>>, <<>>)
        ELSE IF req.payload[5] # uint8(expectedLen)
        THEN Outcome(ErrProtocolError, <<>>, <<>>)
        ELSE IF TailMismatch(req.payload, expectedLen)
        THEN Outcome(ErrProtocolError, <<>>, <<>>)
        ELSE IF h.err # ErrNil
        THEN Outcome(h.err, <<>>, <<call>>)
        ELSE Outcome(ErrNil,
                     << Pdu(req.unitId, req.functionCode,
                            uint16ToBytes(addr) \o uint16ToBytes(quantity)) >>,
                     <<call>>)

\* 0x80 | functionCode
ErrorBit(functionCode) ==
    IF functionCode >= 128 THEN functionCode ELSE 128 + functionCode

\* a default case that answers without the error bit
UnknownFunctionCaseEcho(req) ==
    Outcome(ErrNil,
            << Pdu(req.unitId, req.functionCode, <<EX_ILLEGAL_FUNCTION>>) >>,
            <<>>)

\* default: the server does not know the function code
UnknownFunctionCase(req) ==
    Outcome(ErrNil,
            << Pdu(req.unitId, ErrorBit(req.functionCode),
                   <<EX_ILLEGAL_FUNCTION>>) >>,
            <<>>)

\* switch req.functionCode { ... }
Dispatch(req, h) ==
    CASE req.functionCode \in {FC_READ_COILS, FC_READ_DISCRETE_INPUTS} ->
            ReadBitsCase(req, h)
      [] req.functionCode = FC_WRITE_SINGLE_COIL ->
            WriteSingleCoilCase(req, h)
      [] req.functionCode = FC_WRITE_MULTIPLE_COILS ->
            WriteMultipleCoilsCase(req, h)
      [] req.functionCode \in {FC_READ_HOLDING_REGISTERS, FC_READ_INPUT_REGISTERS} ->
            ReadRegistersCase(req, h)
      [] req.functionCode = FC_WRITE_SINGLE_REGISTER ->
            WriteSingleRegisterCase(req, h)
      [] req.functionCode = FC_WRITE_MULTIPLE_REGISTERS ->
            WriteMultipleRegistersCase(req, h)
      [] OTHER -> UnknownFunctionCase(req)

\* if err == nil && res == nil { err = ErrServerDeviceFailure }
Fallback(d) ==
    IF d.err = ErrNil /\ d.res = <<>>
    THEN Outcome(ErrServerDeviceFailure, d.res, d.calls)
    ELSE d

\* the error response built for an error that is no protocol error
ErrorResponse(req, err) ==
    Pdu(req.unitId, ErrorBit(req.functionCode),
        << mapErrorToExceptionCode(err) >>)

(***************************************************************************)
(* The state of the server.                                                *)
(***************************************************************************)
VARIABLES
    started,      \* ms.started
    tcpListener,  \* ms.tcpListener: 0 is nil, l > 0 the l-th listener bound
    tcpClients,   \* ms.tcpClients: the active connections, a slice
    lock,         \* ms.lock: its holder
    listeners,    \* every net.Listener: "none" (not created), "open", "closed"
    socks,        \* every net.Conn: "none" (not accepted), "open", "closed"
    api,          \* the call of Start or Stop in progress: position and err
    acc,          \* the acceptTCPClients goroutines, one per successful bind
    wrk           \* the handleTCPClient goroutines, one per admitted connection

vars == << started, tcpListener, tcpClients, lock, listeners, socks, api,
           acc, wrk >>

\* holders of ms.lock
Unlocked == << "none", 0 >>
ByApi == << "api", 0 >>
ByAccept(l) == << "acc", l >>
ByWorker(c) == << "wrk", c >>

ErrListen == "ErrListen"

\* a call of Start or Stop: its position and its named result err.  Calls
\* are serialized by ms.lock, which a call takes first and releases when it
\* returns, so one call in progress stands for any number of callers.
ApiState(pc, err) == [pc |-> pc, err |-> err]

\* an accept loop: its position, the listener it blocks on, and the locals
\* sock and accepted
AcceptState(pc, lst, sock, accepted) ==
    [pc |-> pc, lst |-> lst, sock |-> sock, accepted |-> accepted]

\* a worker: its position, the locals req, res and err of handleTransport,
\* and what it did for its connection: whether it has read a request, the
\* handler invocations made for the request read last and the number of
\* WriteResponse calls made since that request was read
WorkerState(pc, req, res, err, served, calls, writes) ==
    [pc |-> pc, req |-> req, res |-> res, err |-> err, served |-> served,
     calls |-> calls, writes |-> writes]

\* a worker between two requests, and one that left handleTransport
Idle(pc) == WorkerState(pc, <<>>, <<>>, ErrNil, FALSE, <<>>, 0)

NoWorker == Idle("none")

\* NewServer: nothing is started, nothing is bound, no connection
Init ==
    /\ started = FALSE
    /\ tcpListener = 0
    /\ tcpClients = <<>>
    /\ lock = Unlocked
    /\ listeners = [l \in Loops |-> "none"]
    /\ socks = [c \in Conns |-> "none"]
    /\ api = ApiState("idle", ErrNil)
    /\ acc = [l \in Loops |-> AcceptState("none", 0, 0, FALSE)]
    /\ wrk = [c \in Conns |-> NoWorker]

(***************************************************************************)
(* Start                                                                   *)
(***************************************************************************)
\* ms.lock.Lock(); defer ms.lock.Unlock()
StartLock ==
    /\ api.pc = "idle"
    /\ lock = Unlocked
    /\ lock' = ByApi
    /\ api' = ApiState("Start", ErrNil)
    /\ UNCHANGED << started, tcpListener, tcpClients, listeners, socks,
                    acc, wrk >>

\* a Start that binds again although the server is started
StartAgain ==
    /\ api.pc = "Start"
    /\ started
    /\ tcpListener' = 0
    /\ api' = ApiState("StartFailed", ErrListen)
    /\ UNCHANGED << started, tcpClients, lock, listeners, socks, acc, wrk >>

\* if ms.started { return }
StartAlready ==
    /\ api.pc = "Start"
    /\ started
    /\ api' = ApiState("StartAlready", ErrNil)
    /\ UNCHANGED << started, tcpListener, tcpClients, lock, listeners, socks,
                    acc, wrk >>

\* a Start that marks the server started before it looks at the error
StartBindFailsStarted ==
    /\ api.pc = "Start"
    /\ ~started
    /\ tcpListener' = 0
    /\ started' = TRUE
    /\ api' = ApiState("StartFailed", ErrListen)
    /\ UNCHANGED << tcpClients, lock, listeners, socks, acc, wrk >>

\* net.Listen fails: ms.tcpListener is assigned the nil listener it
\* returns, and Start returns the error
StartBindFails ==
    /\ api.pc = "Start"
    /\ ~started
    /\ tcpListener' = 0
    /\ api' = ApiState("StartFailed", ErrListen)
    /\ UNCHANGED << started, tcpClients, lock, listeners, socks, acc, wrk >>

\* net.Listen succeeds; go ms.acceptTCPClients()
StartBinds ==
    /\ api.pc = "Start"
    /\ ~started
    /\ \E l \in Loops :
         /\ listeners[l] = "none"
         /\ \A k \in Loops : k < l => listeners[k] # "none"
         /\ listeners' = [listeners EXCEPT ![l] = "open"]
         /\ tcpListener' = l
         /\ acc' = [acc EXCEPT ![l] = AcceptState("call", 0, 0, FALSE)]
    /\ api' = ApiState("StartMark", ErrNil)
    /\ UNCHANGED << started, tcpClients, lock, socks, wrk >>

\* ms.started = true; return
StartMark ==
    /\ api.pc = "StartMark"
    /\ started' = TRUE
    /\ api' = ApiState("StartDone", ErrNil)
    /\ UNCHANGED << tcpListener, tcpClients, lock, listeners, socks, acc, wrk >>

\* Start returns err to its caller: the deferred ms.lock.Unlock()
StartReturn ==
    /\ api.pc \in {"StartAlready", "StartFailed", "StartDone"}
    /\ api' = ApiState("idle", ErrNil)
    /\ lock' = Unlocked
    /\ UNCHANGED << started, tcpListener, tcpClients, listeners, socks,
                    acc, wrk >>

Start ==
    \/ StartLock
    \/ StartAlready
    \/ StartBindFails
    \/ StartBinds
    \/ StartMark
    \/ StartReturn

(***************************************************************************)
(* Stop                                                                    *)
(***************************************************************************)
\* ms.lock.Lock(); defer ms.lock.Unlock()
StopLock ==
    /\ api.pc = "idle"
    /\ lock = Unlocked
    /\ lock' = ByApi
    /\ api' = ApiState("Stop", ErrNil)
    /\ UNCHANGED << started, tcpListener, tcpClients, listeners, socks,
                    acc, wrk >>

\* if !ms.started { return }
StopAlready ==
    /\ api.pc = "Stop"
    /\ ~started
    /\ api' = ApiState("StopAlready", ErrNil)
    /\ UNCHANGED << started, tcpListener, tcpClients, lock, listeners, socks,
                    acc, wrk >>

\* ms.started = false
StopMark ==
    /\ api.pc = "Stop"
    /\ started
    /\ started' = FALSE
    /\ api' = ApiState("StopClose", ErrNil)
    /\ UNCHANGED << tcpListener, tcpClients, lock, listeners, socks, acc, wrk >>

\* a loop that stops one short of the end of the slice
CloseAllButLast(clients, ss) ==
    [c \in Conns |->
        IF \E i \in 1 .. Len(clients) - 1 : clients[i] = c THEN "closed" ELSE ss[c]]

\* every connection of the slice closed: for _, sock := range clients
CloseAll(clients, ss) ==
    [c \in Conns |->
        IF \E i \in 1 .. Len(clients) : clients[i] = c THEN "closed" ELSE ss[c]]

\* err = ms.tcpListener.Close(), which may report an error; then every
\* active client is closed
StopClose ==
    /\ api.pc = "StopClose"
    /\ listeners' = [listeners EXCEPT ![tcpListener] = "closed"]
    /\ socks' = CloseAll(tcpClients, socks)
    /\ \E e \in {ErrNil, ErrIO} : api' = ApiState("StopDone", e)
    /\ UNCHANGED << started, tcpListener, tcpClients, lock, acc, wrk >>

\* Stop returns err to its caller: the deferred ms.lock.Unlock()
StopReturn ==
    /\ api.pc \in {"StopAlready", "StopDone"}
    /\ api' = ApiState("idle", ErrNil)
    /\ lock' = Unlocked
    /\ UNCHANGED << started, tcpListener, tcpClients, listeners, socks,
                    acc, wrk >>

Stop ==
    \/ StopLock
    \/ StopAlready
    \/ StopMark
    \/ StopClose
    \/ StopReturn

(***************************************************************************)
(* acceptTCPClients                                                        *)
(***************************************************************************)
\* a limit that lets one connection too many in
BelowLimitOffByOne(clients) == Len(clients) <= MaxClients

\* no limit at all
NoLimit(clients) == TRUE

\* the connection limit: uint(len(ms.tcpClients)) < ms.conf.MaxClients
BelowLimit(clients) == Len(clients) < MaxClients

\* ms.tcpListener.Accept() is called on the listener read without the lock
AcceptCall(l) ==
    /\ acc[l].pc = "call"
    /\ tcpListener # 0
    /\ acc' = [acc EXCEPT ![l] = AcceptState("accepting", tcpListener, 0, FALSE)]
    /\ UNCHANGED << started, tcpListener, tcpClients, lock, listeners, socks,
                    api, wrk >>

\* ms.tcpListener.Accept() is called while ms.tcpListener is nil, as a
\* failed net.Listen leaves it: the nil dereference ends the process, with
\* every goroutine, and the system closes what was open
AcceptPanics(l) ==
    /\ acc[l].pc = "call"
    /\ tcpListener = 0
    /\ api' = ApiState("crashed", ErrNil)
    /\ acc' = [k \in Loops |-> AcceptState("crashed", 0, 0, FALSE)]
    /\ wrk' = [c \in Conns |-> Idle("crashed")]
    /\ listeners' = [k \in Loops |->
                       IF listeners[k] = "open" THEN "closed" ELSE listeners[k]]
    /\ socks' = [c \in Conns |-> IF socks[c] = "open" THEN "closed" ELSE socks[c]]
    /\ UNCHANGED << started, tcpListener, tcpClients, lock >>

\* Accept returns a new connection of a client
AcceptReturns(l) ==
    /\ acc[l].pc = "accepting"
    /\ listeners[acc[l].lst] = "open"
    /\ \E c \in Conns :
         /\ socks[c] = "none"
         /\ \A k \in Conns : k < c => socks[k] # "none"
         /\ socks' = [socks EXCEPT ![c] = "open"]
         /\ acc' = [acc EXCEPT ![l] = AcceptState("lock", acc[l].lst, c, FALSE)]
    /\ UNCHANGED << started, tcpListener, tcpClients, lock, listeners, api, wrk >>

\* Accept returns an error, as it does once its listener is closed:
\* if !ms.started { return }, else the loop continues
AcceptFails(l) ==
    /\ acc[l].pc = "accepting"
    /\ acc' = [acc EXCEPT ![l] =
                 AcceptState(IF ~started THEN "done" ELSE "call", 0, 0, FALSE)]
    /\ UNCHANGED << started, tcpListener, tcpClients, lock, listeners, socks,
                    api, wrk >>

\* ms.lock.Lock()
AcceptLock(l) ==
    /\ acc[l].pc = "lock"
    /\ lock = Unlocked
    /\ lock' = ByAccept(l)
    /\ acc' = [acc EXCEPT ![l].pc = "admit"]
    /\ UNCHANGED << started, tcpListener, tcpClients, listeners, socks, api, wrk >>

\* an admission that returns to Accept without ms.lock.Unlock()
AcceptAdmitKeepsLock(l) ==
    /\ acc[l].pc = "admit"
    /\ IF BelowLimit(tcpClients)
       THEN /\ tcpClients' = Append(tcpClients, acc[l].sock)
            /\ acc' = [acc EXCEPT ![l].pc = "decided", ![l].accepted = TRUE]
       ELSE /\ UNCHANGED tcpClients
            /\ acc' = [acc EXCEPT ![l].pc = "decided", ![l].accepted = FALSE]
    /\ UNCHANGED << started, tcpListener, lock, listeners, socks, api, wrk >>

\* the connection limit is applied; ms.lock.Unlock()
AcceptAdmit(l) ==
    /\ acc[l].pc = "admit"
    /\ IF BelowLimit(tcpClients)
       THEN /\ tcpClients' = Append(tcpClients, acc[l].sock)
            /\ acc' = [acc EXCEPT ![l].pc = "decided", ![l].accepted = TRUE]
       ELSE /\ UNCHANGED tcpClients
            /\ acc' = [acc EXCEPT ![l].pc = "decided", ![l].accepted = FALSE]
    /\ lock' = Unlocked
    /\ UNCHANGED << started, tcpListener, listeners, socks, api, wrk >>

\* go ms.handleTCPClient(sock)
AcceptSpawn(l) ==
    /\ acc[l].pc = "decided"
    /\ acc[l].accepted
    /\ wrk' = [wrk EXCEPT ![acc[l].sock] = Idle("read")]
    /\ acc' = [acc EXCEPT ![l] = AcceptState("call", 0, 0, FALSE)]
    /\ UNCHANGED << started, tcpListener, tcpClients, lock, listeners, socks, api >>

\* sock.Close(): the connection is discarded
AcceptReject(l) ==
    /\ acc[l].pc = "decided"
    /\ ~acc[l].accepted
    /\ socks' = [socks EXCEPT ![acc[l].sock] = "closed"]
    /\ acc' = [acc EXCEPT ![l] = AcceptState("call", 0, 0, FALSE)]
    /\ UNCHANGED << started, tcpListener, tcpClients, lock, listeners, api, wrk >>

acceptTCPClients(l) ==
    \/ AcceptCall(l)
    \/ AcceptPanics(l)
    \/ AcceptReturns(l)
    \/ AcceptFails(l)
    \/ AcceptLock(l)
    \/ AcceptAdmit(l)
    \/ AcceptSpawn(l)
    \/ AcceptReject(l)

(***************************************************************************)
(* handleTCPClient and handleTransport                                     *)
(***************************************************************************)
\* t.ReadRequest() returns the request r the client sent
ReadRequest(c, r) ==
    /\ wrk[c].pc = "read"
    /\ socks[c] = "open"
    /\ wrk' = [wrk EXCEPT ![c] =
                 WorkerState("dispatch", <<r>>, <<>>, ErrNil, TRUE, <<>>, 0)]
    /\ UNCHANGED << started, tcpListener, tcpClients, lock, listeners, socks,
                    api, acc >>

\* t.ReadRequest() returns an error: the connection was closed, by Stop or
\* by the client, or it timed out; handleTransport returns
ReadFails(c) ==
    /\ wrk[c].pc = "read"
    /\ wrk' = [wrk EXCEPT ![c] =
                 WorkerState("exit", <<>>, <<>>, ErrIO, wrk[c].served, <<>>,
                             wrk[c].writes)]
    /\ UNCHANGED << started, tcpListener, tcpClients, lock, listeners, socks,
                    api, acc >>

\* a worker that answers a protocol error like any other error
HandleRequestAnswersAll(c, h) ==
    /\ wrk[c].pc = "dispatch"
    /\ LET req == wrk[c].req[1]
           d == Fallback(Dispatch(req, h))
       IN  wrk' = [wrk EXCEPT ![c] =
                     WorkerState("write", wrk[c].req,
                                 IF d.err # ErrNil
                                 THEN << ErrorResponse(req, d.err) >>
                                 ELSE d.res,
                                 d.err, TRUE, Returned(d.calls, h), 0)]
    /\ UNCHANGED << started, tcpListener, tcpClients, lock, listeners, socks,
                    api, acc >>

\* the switch on the function code, with the handler returning h, then the
\* fallback and the mapping of the error: a protocol error closes the
\* transport and returns, any other error becomes an error response
HandleRequest(c, h) ==
    /\ wrk[c].pc = "dispatch"
    /\ LET req == wrk[c].req[1]
           d == Fallback(Dispatch(req, h))
       IN  IF d.err = ErrProtocolError
           THEN /\ socks' = [socks EXCEPT ![c] = "closed"]
                /\ wrk' = [wrk EXCEPT ![c] =
                             WorkerState("exit", wrk[c].req, d.res, d.err,
                                         TRUE, Returned(d.calls, h), 0)]
           ELSE /\ UNCHANGED socks
                /\ wrk' = [wrk EXCEPT ![c] =
                             WorkerState("write", wrk[c].req,
                                         IF d.err # ErrNil
                                         THEN << ErrorResponse(req, d.err) >>
                                         ELSE d.res,
                                         d.err, TRUE, Returned(d.calls, h), 0)]
    /\ UNCHANGED << started, tcpListener, tcpClients, lock, listeners, api, acc >>

\* a worker that goes back to reading without a call of WriteResponse
WriteNothing(c) ==
    /\ wrk[c].pc = "write"
    /\ wrk' = [wrk EXCEPT ![c] =
                 WorkerState("read", <<>>, <<>>, ErrNil, TRUE, <<>>,
                             wrk[c].writes)]
    /\ UNCHANGED << started, tcpListener, tcpClients, lock, listeners, socks,
                    api, acc >>

\* err = t.WriteResponse(res): the response res reaches the client, or the
\* write fails, which is only logged; req = nil; res = nil
WriteResponse(c) ==
    /\ wrk[c].pc = "write"
    /\ \E ok \in BOOLEAN :
         /\ ok => socks[c] = "open"
         /\ wrk' = [wrk EXCEPT ![c] =
                      WorkerState("read", <<>>, <<>>,
                                  IF ok THEN ErrNil ELSE ErrIO, TRUE, <<>>,
                                  wrk[c].writes + 1)]
    /\ UNCHANGED << started, tcpListener, tcpClients, lock, listeners, socks,
                    api, acc >>

\* handleTransport has returned; ms.lock.Lock()
WorkerLock(c) ==
    /\ wrk[c].pc = "exit"
    /\ lock = Unlocked
    /\ lock' = ByWorker(c)
    /\ wrk' = [wrk EXCEPT ![c] = Idle("remove")]
    /\ UNCHANGED << started, tcpListener, tcpClients, listeners, socks, api, acc >>

\* a removal that drops the last entry, whichever it is
SwapRemoveLast(clients, sock) ==
    IF clients = <<>> THEN clients ELSE SubSeq(clients, 1, Len(clients) - 1)

\* a removal that finds nothing to remove
SwapRemoveNothing(clients, sock) == clients

\* the loop of handleTCPClient: the first entry equal to sock is
\* overwritten by the last one and the slice is shortened by one
SwapRemove(clients, sock) ==
    IF \E i \in 1 .. Len(clients) : clients[i] = sock
    THEN LET i == CHOOSE k \in 1 .. Len(clients) :
                    /\ clients[k] = sock
                    /\ \A j \in 1 .. k - 1 : clients[j] # sock
         IN  SubSeq([clients EXCEPT ![i] = clients[Len(clients)]],
                    1, Len(clients) - 1)
    ELSE clients

\* the connection is removed from the active ones; ms.lock.Unlock()
WorkerRemove(c) ==
    /\ wrk[c].pc = "remove"
    /\ tcpClients' = SwapRemove(tcpClients, c)
    /\ lock' = Unlocked
    /\ wrk' = [wrk EXCEPT ![c].pc = "close"]
    /\ UNCHANGED << started, tcpListener, listeners, socks, api, acc >>

\* sock.Close()
WorkerClose(c) ==
    /\ wrk[c].pc = "close"
    /\ socks' = [socks EXCEPT ![c] = "closed"]
    /\ wrk' = [wrk EXCEPT ![c].pc = "done"]
    /\ UNCHANGED << started, tcpListener, tcpClients, lock, listeners, api, acc >>

\* handleTransport of connection c, the client sending requests of the
\* set requests and the handler answering with outcomes of the set outcomes
handleTransport(c, requests, outcomes) ==
    \/ \E r \in requests : ReadRequest(c, r)
    \/ ReadFails(c)
    \/ \E h \in outcomes : HandleRequest(c, h)
    \/ WriteResponse(c)

handleTCPClient(c, requests, outcomes) ==
    \/ handleTransport(c, requests, outcomes)
    \/ WorkerLock(c)
    \/ WorkerRemove(c)
    \/ WorkerClose(c)

(***************************************************************************)
(* Requests and handler outcomes the model draws from.                     *)
(***************************************************************************)
Request(unitId, functionCode, payload) == Pdu(unitId, functionCode, payload)

\* requests of the life cycle model: a valid Read Coils, and a Read Coils of
\* quantity 0, which is malformed
LifecycleRequests ==
    { Request(1, FC_READ_COILS, <<0, 0, 0, 1>>),
      Request(1, FC_READ_COILS, <<0, 0, 0, 0>>) }

LifecycleOutcomes ==
    { HandlerOutcome(ErrNil, "exact", "ones") }

UnitIds == {1, 247}

\* n bytes, each equal to b
Fill(n, b) == [k \in 1 .. n |-> b]

\* the 4-byte payload of an address and a 16-bit value
Fields(addr, value) == uint16ToBytes(addr) \o uint16ToBytes(value)

\* payloads of a wrong length for the functions of a 4-byte payload
WrongLength == { <<0, 0, 0>>, <<0, 0, 0, 1, 0>> }

\* Read Coils and Read Discrete Inputs: quantities around 1 and 2000,
\* addresses around the last one that fits
ReadBitsRequests ==
    { Request(u, f, p) :
        u \in UnitIds, f \in {FC_READ_COILS, FC_READ_DISCRETE_INPUTS},
        p \in { Fields(a, q) : a \in {0, 63536, 63537, 65535},
                               q \in {0, 1, 9, 2000, 2001} } \cup WrongLength }

\* Read Holding Registers and Read Input Registers: quantities around 1
\* and 125
ReadRegistersRequests ==
    { Request(u, f, p) :
        u \in UnitIds,
        f \in {FC_READ_HOLDING_REGISTERS, FC_READ_INPUT_REGISTERS},
        p \in { Fields(a, q) : a \in {0, 65411, 65412, 65535},
                               q \in {0, 1, 2, 125, 126} } \cup WrongLength }

\* Write Single Coil: the two legal values and illegal ones
WriteSingleCoilRequests ==
    { Request(u, FC_WRITE_SINGLE_COIL, p) :
        u \in UnitIds,
        p \in { uint16ToBytes(a) \o v :
                  a \in {0, 65535},
                  v \in { <<255, 0>>, <<0, 0>>, <<1, 0>>, <<255, 1>>, <<0, 255>> } }
              \cup WrongLength }

WriteSingleRegisterRequests ==
    { Request(u, FC_WRITE_SINGLE_REGISTER, p) :
        u \in UnitIds,
        p \in { Fields(a, v) : a \in {0, 65535}, v \in {0, 258, 65535} }
              \cup WrongLength }

\* a multiple write of quantity q whose byte count field is off by dc and
\* whose tail is off by dt from the n bytes the quantity calls for
MultipleWritePayload(a, q, n, dc, dt) ==
    Fields(a, q) \o << uint8(n + dc + 256) >> \o Fill(n + dt, 165)

\* Write Multiple Coils: quantities around 1 and 0x7b0, and one whose 257
\* data bytes are announced by a byte count field of 1
WriteMultipleCoilsRequests ==
    { Request(u, FC_WRITE_MULTIPLE_COILS, p) :
        u \in UnitIds,
        p \in { MultipleWritePayload(a, q, (q + 7) \div 8, dc, dt) :
                  a \in {0, 63568, 63569, 65535},
                  q \in {1, 9, 1968, 1969},
                  dc \in {-1, 0, 1}, dt \in {-1, 0, 1} }
              \cup { Fields(0, 0) \o <<0, 0>>, Fields(0, 1) \o <<1>>,
                     MultipleWritePayload(0, 2056, 257, 0, 0) } }

\* Write Multiple Registers: quantities around 1 and 0x7b, and one whose
\* 258 data bytes are announced by a byte count field of 2
WriteMultipleRegistersRequests ==
    { Request(u, FC_WRITE_MULTIPLE_REGISTERS, p) :
        u \in UnitIds,
        p \in { MultipleWritePayload(a, q, 2 * q, dc, dt) :
                  a \in {0, 65413, 65414, 65535},
                  q \in {1, 2, 123, 124},
                  dc \in {-1, 0, 1}, dt \in {-1, 0, 1} }
              \cup { Fields(0, 0) \o <<0, 0>>, Fields(0, 1) \o <<2>>,
                     MultipleWritePayload(0, 129, 258, 0, 0) } }

\* function codes the server does not serve
UnknownRequests ==
    { Request(u, f, p) :
        u \in UnitIds, f \in {0, 7, 43, 129, 255}, p \in { <<>>, <<0, 0, 0, 1>> } }

Requests ==
    ReadBitsRequests \cup ReadRegistersRequests \cup WriteSingleCoilRequests
      \cup WriteSingleRegisterRequests \cup WriteMultipleCoilsRequests
      \cup WriteMultipleRegistersRequests \cup UnknownRequests

\* what the handler may return: any error of the package or of its own,
\* or no error with a result of the right or of a wrong length
HandlerOutcomes ==
    { HandlerOutcome(e, "none", "zeros") :
        e \in { ErrIllegalFunction, ErrIllegalDataAddress, ErrIllegalDataValue,
                ErrServerDeviceFailure, ErrProtocolError, ErrOther } }
      \cup { HandlerOutcome(ErrNil, n, p) :
               n \in {"exact", "short", "long"},
               p \in {"zeros", "ones", "mixed"} }

(***************************************************************************)
(* The server: callers of Start and Stop, the accept loops, the workers.   *)
(***************************************************************************)
Next ==
    \/ Start
    \/ Stop
    \/ \E l \in Loops : acceptTCPClients(l)
    \/ \E c \in Conns : handleTCPClient(c, LifecycleRequests, LifecycleOutcomes)

Spec == Init /\ [][Next]_vars

(***************************************************************************)
(* One worker serving its connection: the server is started, its accept    *)
(* loop has admitted connection 1 and waits for the next one, and the      *)
(* client of connection 1 sends any requests while the handler answers in  *)
(* any way.                                                                *)
(***************************************************************************)
Serving ==
    /\ started = TRUE
    /\ tcpListener = 1
    /\ tcpClients = <<1>>
    /\ lock = Unlocked
    /\ listeners = [l \in Loops |-> IF l = 1 THEN "open" ELSE "none"]
    /\ socks = [c \in Conns |-> IF c = 1 THEN "open" ELSE "none"]
    /\ api = ApiState("idle", ErrNil)
    /\ acc = [l \in Loops |-> IF l = 1 THEN AcceptState("accepting", 1, 0, FALSE)
                                      ELSE AcceptState("none", 0, 0, FALSE)]
    /\ wrk = [c \in Conns |-> IF c = 1
                              THEN Idle("read") ELSE NoWorker]

ServeNext == handleTCPClient(1, Requests, HandlerOutcomes)

ServeSpec == Serving /\ [][ServeNext]_vars

(***************************************************************************)
(* Properties of the life cycle.                                           *)
(***************************************************************************)
\* connection c is in the active set
Active(c) == \E i \in 1 .. Len(tcpClients) : tcpClients[i] = c

\* C1: in every reachable state the active set holds at most MaxClients
\* connections.
C1_AtMostMaxClients == Len(tcpClients) <= MaxClients

\* the active set is full while the accept loop turns a connection away
C1_FullAndRejecting ==
    /\ Len(tcpClients) = MaxClients
    /\ \E l \in Loops : acc[l].pc = "decided" /\ ~acc[l].accepted

\* C2, as claimed: when Stop, called on a started server, returns, the
\* active set is empty and the listener is closed.
C2_StopLeavesEmptySet ==
    api.pc = "StopDone" =>
        /\ tcpClients = <<>>
        /\ listeners[tcpListener] = "closed"

\* C2, amended: when Stop, called on a started server, returns, the
\* listener is closed and every connection of the active set is closed; the
\* connections are still in the set, which their workers empty afterwards.
C2_StopClosesEverything ==
    api.pc = "StopDone" =>
        /\ listeners[tcpListener] = "closed"
        /\ \A i \in 1 .. Len(tcpClients) : socks[tcpClients[i]] = "closed"

\* Stop returns while the active set holds several connections
C2_StopWithActiveConnections ==
    /\ api.pc = "StopDone"
    /\ Len(tcpClients) = MaxClients

\* C3: once Stop has returned and no Start has followed, no connection is
\* admitted or served: every connection of the active set is one that Stop
\* closed.
C3_NoAdmissionAfterStop ==
    (~started /\ api.pc = "idle") =>
        \A i \in 1 .. Len(tcpClients) : socks[tcpClients[i]] = "closed"


\* connection c is the local sock of an accept loop
Held(c) == \E l \in Loops : acc[l].sock = c

\* every connection attempt has been decided, and no worker and no Stop
\* has ended a connection since
AllDecidedNobodyLeft ==
    /\ started
    /\ \A l \in Loops : listeners[l] # "closed"
    /\ \A c \in Conns : socks[c] # "none" /\ ~Held(c)
    /\ \A c \in Conns : wrk[c].pc \in {"none", "read", "dispatch", "write"}

\* C5: a connection accepted while the active set holds MaxClients
\* connections is not added to the set, gets no worker and is closed by the
\* accept loop's next step; one accepted below the limit is appended to the
\* set and only then gets its worker, once, unless the process dies
\* first.  The set grows in no other way,
\* and with one connection attempt more than MaxClients, all of them
\* decided and nobody gone, exactly MaxClients connections are open.
C5_AdmissionControl ==
    /\ [](\A l \in Loops : acc[l].pc = "decided" =>
             /\ wrk[acc[l].sock].pc = "none"
             /\ Active(acc[l].sock) <=> acc[l].accepted)
    /\ [](AllDecidedNobodyLeft =>
             /\ Cardinality({c \in Conns : socks[c] = "open"}) = MaxClients
             /\ \A c \in Conns : socks[c] = "open" <=> wrk[c].pc # "none")
    /\ [][\A l \in Loops :
            (acc[l].pc = "admit" /\ acc'[l].pc = "decided") =>
               IF Len(tcpClients) >= MaxClients
               THEN ~acc'[l].accepted /\ tcpClients' = tcpClients
               ELSE /\ acc'[l].accepted
                    /\ tcpClients' = Append(tcpClients, acc[l].sock)]_vars
    /\ [][Len(tcpClients') > Len(tcpClients) =>
            \E l \in Loops : acc[l].pc = "admit" /\ Len(tcpClients) < MaxClients]_vars
    /\ [][\A l \in Loops :
            (/\ acc[l].pc = "decided" /\ ~acc[l].accepted
             /\ acc'[l] # acc[l] /\ acc'[l].pc # "crashed") =>
               /\ socks'[acc[l].sock] = "closed"
               /\ wrk' = wrk
               /\ tcpClients' = tcpClients]_vars
    /\ [][\A c \in Conns :
            (wrk[c].pc = "none" /\ wrk'[c].pc \notin {"none", "crashed"}) =>
               /\ wrk'[c] = Idle("read")
               /\ Active(c)
               /\ \E l \in Loops :
                    acc[l].pc = "decided" /\ acc[l].sock = c /\ acc[l].accepted]_vars

\* MaxClients + 1 connection attempts, all decided, nobody gone: the last
\* one was turned away
C5_OneTooMany ==
    /\ AllDecidedNobodyLeft
    /\ Len(tcpClients) = MaxClients
    /\ \E c \in Conns : socks[c] = "closed" /\ wrk[c].pc = "none"

\* a step of a call of Start on a started server, or of Stop on a stopped one
NoOpCallStep ==
    /\ api' # api
    /\ api'.pc # "crashed"
    /\ \/ started /\ api.pc = "idle" /\ api'.pc = "Start"
       \/ started /\ api.pc = "Start"
       \/ api.pc = "StartAlready"
       \/ ~started /\ api.pc = "idle" /\ api'.pc = "Stop"
       \/ ~started /\ api.pc = "Stop"
       \/ api.pc = "StopAlready"

\* C6: a call of Start on a started server, and a call of Stop on a stopped
\* server, returns no error and changes neither the started flag, nor the
\* listener, nor the active set, nor any connection, accept loop or worker,
\* whatever runs beside it.
C6_Idempotent ==
    [][NoOpCallStep =>
         /\ api'.err = ErrNil
         /\ api'.pc \in {"Start", "StartAlready", "Stop", "StopAlready", "idle"}
         /\ UNCHANGED << started, tcpListener, tcpClients, listeners, socks,
                         acc, wrk >>]_vars

\* Start returns from a call made while the server serves a connection
C6_StartOnStartedServer ==
    /\ api.pc = "StartAlready"
    /\ \E c \in Conns : Active(c) /\ wrk[c].pc = "write"

\* C7: when net.Listen fails, Start returns its error, the server stays
\* unstarted and no accept loop is launched, up to the return of Start; and
\* a call of Start on an unstarted server always tries to bind.
C7_BindFailure ==
    /\ [](api.pc = "StartFailed" => (api.err = ErrListen /\ ~started))
    /\ [][(api.pc = "Start" /\ api'.pc = "StartFailed") =>
            (~started' /\ acc' = acc /\ listeners' = listeners)]_vars
    /\ [][(api.pc = "StartFailed" /\ api' # api /\ api'.pc # "crashed") =>
            (api'.pc = "idle" /\ ~started' /\ acc' = acc)]_vars
    /\ [][(api.pc = "Start" /\ ~started /\ api' # api /\ api'.pc # "crashed") =>
            api'.pc \in {"StartFailed", "StartMark"}]_vars

\* net.Listen fails when the server is started again after a Stop
C7_BindFailsOnRestart ==
    /\ api.pc = "StartFailed"
    /\ \E l \in Loops : listeners[l] = "closed"


(***************************************************************************)
(* Claims about one worker and its requests: the requests as the protocol  *)
(* describes them, read off the payload without the dispatcher.            *)
(***************************************************************************)
ReadFunctions ==
    { FC_READ_COILS, FC_READ_DISCRETE_INPUTS, FC_READ_HOLDING_REGISTERS,
      FC_READ_INPUT_REGISTERS }

WriteMultipleFunctions == { FC_WRITE_MULTIPLE_COILS, FC_WRITE_MULTIPLE_REGISTERS }

WriteSingleFunctions == { FC_WRITE_SINGLE_COIL, FC_WRITE_SINGLE_REGISTER }

\* the two 16-bit fields every served request starts with
FirstField(r) == r.payload[1] * 256 + r.payload[2]

SecondField(r) == r.payload[3] * 256 + r.payload[4]

\* the largest quantity of a read or write-multiple function
MaxQuantity(r) ==
    CASE r.functionCode \in {FC_READ_COILS, FC_READ_DISCRETE_INPUTS} -> 2000
      [] r.functionCode \in {FC_READ_HOLDING_REGISTERS, FC_READ_INPUT_REGISTERS} -> 125
      [] r.functionCode = FC_WRITE_MULTIPLE_COILS -> 1968
      [] r.functionCode = FC_WRITE_MULTIPLE_REGISTERS -> 123

\* the number of data bytes a write-multiple request of this quantity has
DataBytes(r) ==
    IF r.functionCode = FC_WRITE_MULTIPLE_COILS
    THEN (SecondField(r) + 7) \div 8
    ELSE 2 * SecondField(r)

WrongPayloadLength(r) ==
    \/ r.functionCode \in ReadFunctions \cup WriteSingleFunctions
         /\ Len(r.payload) # 4
    \/ r.functionCode \in WriteMultipleFunctions /\ Len(r.payload) < 6

WrongQuantity(r) ==
    /\ r.functionCode \in ReadFunctions \cup WriteMultipleFunctions
    /\ ~WrongPayloadLength(r)
    /\ SecondField(r) = 0 \/ SecondField(r) > MaxQuantity(r)

WrongCoilValue(r) ==
    /\ r.functionCode = FC_WRITE_SINGLE_COIL
    /\ ~WrongPayloadLength(r)
    /\ SecondField(r) \notin {65280, 0}

WrongByteCount(r) ==
    /\ r.functionCode \in WriteMultipleFunctions
    /\ ~WrongPayloadLength(r)
    /\ r.payload[5] # DataBytes(r) \/ Len(r.payload) - 5 # DataBytes(r)

\* addr + quantity - 1 > 0xFFFF
RangePastEnd(r) ==
    /\ r.functionCode \in ReadFunctions \cup WriteMultipleFunctions
    /\ Len(r.payload) >= 4
    /\ FirstField(r) + SecondField(r) - 1 > 65535

\* worker c has left the dispatcher with the request it read
Dispatched(c) == wrk[c].req # <<>> /\ wrk[c].pc # "dispatch"

\* worker c closed its connection on its request: no handler was invoked,
\* no response was built or written, and handleTransport has returned
LinkClosedOnRequest(c) ==
    /\ wrk[c].pc = "exit"
    /\ wrk[c].err = ErrProtocolError
    /\ socks[c] = "closed"
    /\ wrk[c].calls = <<>>
    /\ wrk[c].res = <<>>
    /\ wrk[c].writes = 0

\* C8: a worker reads a request only after one call of WriteResponse for
\* the request it read before, with a response that answers that request;
\* it calls WriteResponse only with a request in hand, once, and while it
\* dispatches or writes it reads nothing.
C8_OneWritePerRequest ==
    /\ [](\A c \in Conns : wrk[c].pc \in {"dispatch", "write"} =>
             /\ wrk[c].writes = 0
             /\ Len(wrk[c].req) = 1)
    /\ [](\A c \in Conns : wrk[c].pc = "write" =>
             /\ Len(wrk[c].res) = 1
             /\ wrk[c].res[1].unitId = wrk[c].req[1].unitId
             /\ wrk[c].res[1].functionCode
                  \in { wrk[c].req[1].functionCode,
                        ErrorBit(wrk[c].req[1].functionCode) })
    /\ [][\A c \in Conns :
            (wrk'[c].pc = "dispatch" /\ wrk'[c] # wrk[c]) =>
               /\ wrk[c].pc = "read"
               /\ wrk[c].served => wrk[c].writes = 1]_vars
    /\ [][\A c \in Conns :
            wrk'[c].writes > wrk[c].writes =>
               /\ wrk[c].pc = "write"
               /\ wrk'[c].pc = "read"
               /\ wrk'[c].writes = wrk[c].writes + 1]_vars

\* the worker waits for the next request after it wrote a response that
\* reached the client
C8_AnsweredAndReading ==
    /\ wrk[1].pc = "read"
    /\ wrk[1].served
    /\ wrk[1].writes = 1
    /\ wrk[1].err = ErrNil
    /\ socks[1] = "open"

AnswersIllegalDataAddress(c) ==
    /\ wrk[c].pc = "write"
    /\ wrk[c].res = << Pdu(wrk[c].req[1].unitId,
                           128 + wrk[c].req[1].functionCode,
                           <<EX_ILLEGAL_DATA_ADDRESS>>) >>
    /\ wrk[c].calls = <<>>
    /\ socks[c] = "open"

\* C10 as stated: every read or write-multiple request with
\* addr + quantity - 1 > 0xFFFF is answered with the illegal-data-address
\* error PDU, without the handler, on a connection that stays open.
C10_PastEndAnswered ==
    \A c \in Conns :
      (Dispatched(c) /\ RangePastEnd(wrk[c].req[1]))
        => AnswersIllegalDataAddress(c)

\* C10: a read or write-multiple request of the right payload length and
\* of a quantity in range, with addr + quantity - 1 > 0xFFFF, is answered
\* with the illegal-data-address error PDU; the handler is not invoked,
\* the connection is not closed, and after the write the worker reads the
\* next request from it.
C10_PastEndInRangeAnswered ==
    /\ [](\A c \in Conns :
            (/\ Dispatched(c)
             /\ RangePastEnd(wrk[c].req[1])
             /\ ~WrongPayloadLength(wrk[c].req[1])
             /\ ~WrongQuantity(wrk[c].req[1]))
              => AnswersIllegalDataAddress(c))
    /\ [][\A c \in Conns :
            (wrk[c].pc = "write" /\ wrk'[c] # wrk[c]) =>
               (wrk'[c].pc = "read" /\ socks'[c] = socks[c])]_vars

\* a Write Multiple Registers request whose last register would be 0x10000
\* is being answered
C10_AnsweringPastEnd ==
    /\ AnswersIllegalDataAddress(1)
    /\ wrk[1].req[1].functionCode = FC_WRITE_MULTIPLE_REGISTERS
    /\ FirstField(wrk[1].req[1]) + SecondField(wrk[1].req[1]) = 65537


\* what the handler returned to worker c for the request it dispatched
Ret(c) == wrk[c].calls[1].ret

\* the handler was invoked for the request of worker c and returned an
\* error, or no error and, on a read, a result of the wrong length
HandlerFailed(c) ==
    /\ Dispatched(c)
    /\ wrk[c].calls # <<>>
    /\ \/ Ret(c).err # ErrNil
       \/ /\ wrk[c].req[1].functionCode \in ReadFunctions
          /\ Ret(c).count # "exact"

\* C11: when the handler returns an error, or no error and a result of the
\* wrong length on a read, the worker goes on to write the error response
\* of function code 0x80 | request function code and of the one exception
\* byte the error maps to (server device failure for a wrong length), on a
\* connection it keeps open.
C11_HandlerFailureAnswered ==
    \A c \in Conns :
      HandlerFailed(c) =>
        /\ wrk[c].pc = "write"
        /\ wrk[c].res =
             << Pdu(wrk[c].req[1].unitId, 128 + wrk[c].req[1].functionCode,
                    << IF Ret(c).err = ErrNil
                       THEN EX_SERVER_DEVICE_FAILURE
                       ELSE mapErrorToExceptionCode(Ret(c).err) >>) >>
        /\ socks[c] = "open"


\* connection c is an entry of the slice clients
Member(clients, c) == \E i \in 1 .. Len(clients) : clients[i] = c

\* C12: a step of the worker of a connection, whatever made it leave its
\* loop, changes no other connection, no other worker, and the membership
\* of no other connection in the active set; its deregistration takes
\* exactly its own connection out of the set, its last step closes its own
\* connection, and no other step of it changes the set.
C12_FailuresStayLocal ==
    [][\A c \in Conns :
         (wrk[c].pc # "none" /\ wrk'[c] # wrk[c] /\ wrk'[c].pc # "crashed") =>
            /\ \A d \in Conns \ {c} :
                 /\ socks'[d] = socks[d]
                 /\ wrk'[d] = wrk[d]
                 /\ Member(tcpClients', d) <=> Member(tcpClients, d)
            /\ wrk[c].pc = "remove" =>
                 /\ Member(tcpClients, c)
                 /\ ~Member(tcpClients', c)
                 /\ Len(tcpClients') = Len(tcpClients) - 1
            /\ wrk[c].pc = "close" => socks'[c] = "closed"
            /\ wrk[c].pc # "remove" => tcpClients' = tcpClients]_vars

\* a worker is gone after a protocol error on its connection, which was
\* the first of the set, while the second one is being answered
C12_OneGoneOtherServed ==
    \E c, d \in Conns :
       /\ c < d
       /\ wrk[c].pc = "done"
       /\ socks[c] = "closed"
       /\ tcpClients = <<d>>
       /\ socks[d] = "open"
       /\ wrk[d].pc = "write"
       /\ started

(***************************************************************************)
(* Scheduling.  Every goroutine that can take a step eventually takes it:  *)
(* a call of Start or Stop that holds the lock runs to its return, the     *)
(* handler returns, a write returns, sync.Mutex hands the lock to each     *)
(* goroutine that waits for it, Accept fails once its listener is closed   *)
(* and a read fails once its connection is closed.  A read of an open      *)
(* connection ends too, with a request or with the idle timeout, but       *)
(* which of the two is up to the client.  Nothing makes a caller call      *)
(* Start or Stop, and nothing makes a client connect.                      *)
(***************************************************************************)
ApiFairness ==
    /\ WF_vars(StartAlready)
    /\ WF_vars(StartBindFails \/ StartBinds)
    /\ WF_vars(StartMark)
    /\ WF_vars(StartReturn)
    /\ WF_vars(StopAlready)
    /\ WF_vars(StopMark)
    /\ WF_vars(StopClose)
    /\ WF_vars(StopReturn)

AcceptFairness(l) ==
    /\ WF_vars(AcceptCall(l) \/ AcceptPanics(l))
    /\ WF_vars(/\ acc[l].pc = "accepting"
               /\ listeners[acc[l].lst] = "closed"
               /\ AcceptFails(l))
    /\ SF_vars(AcceptLock(l))
    /\ WF_vars(AcceptAdmit(l))
    /\ WF_vars(AcceptSpawn(l) \/ AcceptReject(l))

WorkerFairness(c) ==
    /\ WF_vars(\/ \E r \in LifecycleRequests : ReadRequest(c, r)
               \/ ReadFails(c))
    /\ WF_vars(socks[c] = "closed" /\ ReadFails(c))
    /\ WF_vars(\E h \in LifecycleOutcomes : HandleRequest(c, h))
    /\ WF_vars(WriteResponse(c))
    /\ SF_vars(WorkerLock(c))
    /\ WF_vars(WorkerRemove(c))
    /\ WF_vars(WorkerClose(c))

FairSpec ==
    /\ Spec
    /\ ApiFairness
    /\ \A l \in Loops : AcceptFairness(l)
    /\ \A c \in Conns : WorkerFairness(c)

\* C4: when Stop returns after closing the connection of a worker blocked
\* on a read, the active set eventually becomes empty, unless Start is
\* called again.
C4_StopEmptiesTheSet ==
    (/\ api.pc = "StopDone"
     /\ \E c \in Conns :
          Active(c) /\ wrk[c].pc = "read" /\ socks[c] = "closed")
      ~> (tcpClients = <<>> \/ api.pc = "Start")

\* accept loop l is running
Running(l) == acc[l].pc \notin {"none", "done", "crashed"}

\* C13: an accept error ends the accept loop only when the server is
\* stopped; while the server is started the loop goes on accepting after
\* an error; and once its listener is closed the loop exits.
C13_AcceptErrorPolicy ==
    /\ [][\A l \in Loops :
            (acc[l].pc = "accepting" /\ acc'[l].pc = "done") => ~started]_vars
    /\ [][\A l \in Loops :
            (/\ acc[l].pc = "accepting" /\ started
             /\ acc'[l] # acc[l] /\ acc'[l].pc # "crashed") =>
               acc'[l].pc \in {"call", "lock"}]_vars
    /\ \A l \in Loops :
         (listeners[l] = "closed" /\ Running(l)) ~> ~Running(l)

\* C16: the accept loop launched by the l-th Start accepts only from the
\* listener that Start created, and no listener has two loops accepting
\* from it.
C16_OneLoopPerListener ==
    /\ \A l \in Loops : acc[l].pc = "accepting" => acc[l].lst = l
    /\ \A k \in Loops :
         Cardinality({ l \in Loops : acc[l].pc = "accepting" /\ acc[l].lst = k }) <= 1

\* bit k, counted from the least significant one, of a byte
Bit(byte, k) == (byte \div (2 ^ k)) % 2 = 1

\* worker c dispatched a Read Coils request of a quantity in [1, 2000]
\* whose addresses end at 0xFFFF or before, and the handler returned no
\* error and exactly quantity booleans
ReadCoilsServed(c) ==
    /\ Dispatched(c)
    /\ wrk[c].req[1].functionCode = FC_READ_COILS
    /\ Len(wrk[c].req[1].payload) = 4
    /\ SecondField(wrk[c].req[1]) \in 1 .. 2000
    /\ FirstField(wrk[c].req[1]) + SecondField(wrk[c].req[1]) - 1 <= 65535
    /\ Len(wrk[c].calls) = 1
    /\ Ret(c).err = ErrNil
    /\ Ret(c).count = "exact"

\* C14: the response to such a request carries the request's function code
\* and unit id, a first payload byte equal to ceil(quantity / 8), that many
\* bytes after it, and in them, least significant bit first, the booleans
\* the handler returned, in order.
C14_ReadCoilsResponse ==
    \A c \in Conns :
      ReadCoilsServed(c) =>
        LET req == wrk[c].req[1]
            quantity == SecondField(req)
            coils == HandlerBools(Ret(c), quantity)
        IN  /\ wrk[c].pc = "write"
            /\ Len(wrk[c].res) = 1
            /\ wrk[c].res[1].functionCode = req.functionCode
            /\ wrk[c].res[1].unitId = req.unitId
            /\ wrk[c].res[1].payload[1] = (quantity + 7) \div 8
            /\ Len(wrk[c].res[1].payload) = 1 + (quantity + 7) \div 8
            /\ \A i \in 1 .. quantity :
                 Bit(wrk[c].res[1].payload[2 + (i - 1) \div 8], (i - 1) % 8)
                   = coils[i]

\* nine coils, some set and some not, are being sent in two bytes
C14_NineMixedCoils ==
    /\ ReadCoilsServed(1)
    /\ SecondField(wrk[1].req[1]) = 9
    /\ Ret(1).pattern = "mixed"
    /\ wrk[1].pc = "write"
    /\ socks[1] = "open"

\* C15: an accept loop that is calling or blocked in Accept does not hold
\* ms.lock, and neither does a worker that reads a request, dispatches it
\* to the handler or writes its response.  Whoever holds the lock is a
\* call of Start or Stop, an accept loop deciding an admission or a worker
\* removing its connection, so nobody waits for the lock behind a read, a
\* write, an Accept or a handler.
C15_NoLockAcrossIO ==
    /\ \A l \in Loops :
         acc[l].pc \in {"call", "accepting"} => lock # ByAccept(l)
    /\ \A c \in Conns :
         wrk[c].pc \in {"read", "dispatch", "write"} => lock # ByWorker(c)
    /\ \A l \in Loops :
         lock = ByAccept(l) => acc[l].pc \in {"admit", "crashed"}
    /\ \A c \in Conns :
         lock = ByWorker(c) => wrk[c].pc \in {"remove", "crashed"}
    /\ lock = ByApi => api.pc \notin {"idle"}

\* a worker is inside the handler and another blocked in its read while an
\* accept loop holds the lock to admit a third connection
C15_AdmittingBesideBusyWorkers ==
    /\ \E l \in Loops : lock = ByAccept(l) /\ acc[l].pc = "admit"
    /\ \E c \in Conns : wrk[c].pc = "dispatch"
    /\ \E c \in Conns : wrk[c].pc = "read"

\* worker c dispatched a Write Multiple Coils or Registers request
WroteMultiple(c) ==
    Dispatched(c) /\ wrk[c].req[1].functionCode \in WriteMultipleFunctions

\* C17 as stated: the write handler is invoked only for a byte count field
\* and a tail that both equal the bytes the quantity calls for, every
\* mismatch is a protocol error, and for every accepted quantity the
\* expected byte count is below 256.
C17_ByteCountDecides ==
    \A c \in Conns :
      WroteMultiple(c) =>
        LET req == wrk[c].req[1]
        IN  /\ WrongPayloadLength(req) => LinkClosedOnRequest(c)
            /\ wrk[c].calls # <<>> =>
                 /\ ~WrongPayloadLength(req)
                 /\ ~WrongQuantity(req)
                 /\ req.payload[5] = DataBytes(req)
                 /\ Len(req.payload) - 5 = DataBytes(req)
                 /\ DataBytes(req) < 256
            /\ WrongByteCount(req) => LinkClosedOnRequest(c)

\* C17: the write handler is invoked only for a quantity in range with a
\* byte count field and a tail that both equal the bytes the quantity
\* calls for, a number below 256; a mismatch, shorter or longer, is a
\* protocol error on every request whose quantity is out of range or whose
\* addresses end at 0xFFFF or before.
C17_ByteCountDecidesInOrder ==
    \A c \in Conns :
      WroteMultiple(c) =>
        LET req == wrk[c].req[1]
        IN  /\ WrongPayloadLength(req) => LinkClosedOnRequest(c)
            /\ wrk[c].calls # <<>> =>
                 /\ ~WrongPayloadLength(req)
                 /\ ~WrongQuantity(req)
                 /\ req.payload[5] = DataBytes(req)
                 /\ Len(req.payload) - 5 = DataBytes(req)
                 /\ DataBytes(req) < 256
            /\ (WrongByteCount(req) /\ (WrongQuantity(req) \/ ~RangePastEnd(req)))
                 => LinkClosedOnRequest(c)

\* the connection was closed on a write whose byte count field is right
\* and whose tail is one byte too long
C17_LongTailRejected ==
    /\ WroteMultiple(1)
    /\ ~WrongQuantity(wrk[1].req[1])
    /\ ~RangePastEnd(wrk[1].req[1])
    /\ wrk[1].req[1].payload[5] = DataBytes(wrk[1].req[1])
    /\ Len(wrk[1].req[1].payload) - 5 = DataBytes(wrk[1].req[1]) + 1
    /\ LinkClosedOnRequest(1)

\* what the handler returned to worker c, or any outcome when the handler
\* was not invoked and the dispatch does not depend on it
RetOrAny(c) ==
    IF wrk[c].calls = <<>> THEN HandlerOutcome(ErrNil, "exact", "zeros")
    ELSE Ret(c)

\* C18: when the switch is left for the request of a worker, an error is
\* set or a response has been built; and every server device failure a
\* worker ends up with was returned by the handler or stands for a result
\* of the wrong length on a read, never for the fallback.
C18_FallbackUnreachable ==
    \A c \in Conns :
      Dispatched(c) =>
        /\ LET d == Dispatch(wrk[c].req[1], RetOrAny(c))
           IN  d.err # ErrNil \/ d.res # <<>>
        /\ wrk[c].err = ErrNil => wrk[c].res # <<>>
        /\ wrk[c].err = ErrServerDeviceFailure =>
             /\ wrk[c].calls # <<>>
             /\ \/ Ret(c).err = ErrServerDeviceFailure
                \/ /\ Ret(c).err = ErrNil
                   /\ Ret(c).count # "exact"
                   /\ wrk[c].req[1].functionCode \in ReadFunctions

\* a write whose handler returned no error and, as on every write, no
\* result is being answered with the echo of the request
C18_WriteWithoutResult ==
    /\ Dispatched(1)
    /\ wrk[1].req[1].functionCode = FC_WRITE_SINGLE_REGISTER
    /\ wrk[1].calls # <<>>
    /\ wrk[1].err = ErrNil
    /\ wrk[1].pc = "write"
    /\ wrk[1].res[1].payload = wrk[1].req[1].payload

SupportedFunctions ==
    ReadFunctions \cup WriteSingleFunctions \cup WriteMultipleFunctions

\* 0x80 | fc, for a function code of one byte
WithTopBit(fc) == IF fc >= 128 THEN fc ELSE fc + 128

\* C19: a request of a function code that is none of the eight supported
\* ones is answered, without any handler invocation and on a connection
\* that stays open, with the response of function code 0x80 | request
\* function code, of the request's unit id and of the single exception
\* byte illegal function.  Every response built for an error has the top
\* bit of the function code set, and every response to a request served
\* without error carries the request's function code.
C19_UnknownFunctionAnswered ==
    \A c \in Conns :
      Dispatched(c) =>
        LET req == wrk[c].req[1]
        IN  /\ req.functionCode \notin SupportedFunctions =>
                 /\ wrk[c].pc = "write"
                 /\ wrk[c].calls = <<>>
                 /\ wrk[c].res = << Pdu(req.unitId, WithTopBit(req.functionCode),
                                        <<EX_ILLEGAL_FUNCTION>>) >>
                 /\ socks[c] = "open"
            /\ (wrk[c].pc = "write" /\ wrk[c].err # ErrNil) =>
                 /\ wrk[c].res[1].functionCode = WithTopBit(req.functionCode)
                 /\ wrk[c].res[1].functionCode >= 128
                 /\ wrk[c].res[1].unitId = req.unitId
                 /\ Len(wrk[c].res[1].payload) = 1
            /\ (/\ wrk[c].pc = "write" /\ wrk[c].err = ErrNil
                /\ req.functionCode \in SupportedFunctions) =>
                 wrk[c].res[1].functionCode = req.functionCode

\* function code 0x2B, which the server does not serve, is being answered
C19_AnsweringUnknownFunction ==
    /\ Dispatched(1)
    /\ wrk[1].req[1].functionCode = 43
    /\ wrk[1].pc = "write"
    /\ wrk[1].res[1].functionCode = 171
    /\ socks[1] = "open"

\* the worker of connection c is inside handleTransport, or has left it and
\* not yet removed c from the active set
WorkerRunning(c) ==
    wrk[c].pc \in {"read", "dispatch", "write", "exit", "remove"}

\* an accept loop has admitted connection c and is about to start its worker
AboutToSpawn(c) ==
    /\ wrk[c].pc = "none"
    /\ Cardinality({ l \in Loops : /\ acc[l].pc = "decided"
                                   /\ acc[l].sock = c
                                   /\ acc[l].accepted }) = 1

\* C20: in every state of a process that is alive the active set holds no
\* connection twice, and each of its connections was accepted and has its
\* one worker, running or about to be started by the loop that admitted
\* it.  A connection enters the set only by the admission of the loop that
\* accepted it, before it has a worker, and leaves it only by the removal
\* of its own worker, after which it is not in the set again; the worker's
\* step after the removal, which nothing can hold up, closes it, so that a
\* connection whose worker is finished is outside the set and closed.
C20_ConsistentRegistry ==
    /\ [](\A i, j \in 1 .. Len(tcpClients) :
            i # j => tcpClients[i] # tcpClients[j])
    /\ [](\A c \in Conns :
            Active(c) =>
              /\ socks[c] # "none"
              /\ WorkerRunning(c) \/ AboutToSpawn(c) \/ wrk[c].pc = "crashed")
    /\ [](\A c \in Conns : wrk[c].pc \in {"close", "done"} => ~Active(c))
    /\ [](\A c \in Conns : wrk[c].pc = "done" => socks[c] = "closed")
    /\ [](\A c \in Conns : wrk[c].pc = "close" => ENABLED WorkerClose(c))
    /\ [][\A c \in Conns :
            (~Member(tcpClients, c) /\ Member(tcpClients', c)) =>
               /\ wrk[c].pc = "none"
               /\ \E l \in Loops : acc[l].pc = "admit" /\ acc[l].sock = c]_vars
    /\ [][\A c \in Conns :
            (Member(tcpClients, c) /\ ~Member(tcpClients', c)) =>
               (wrk[c].pc = "remove" /\ wrk'[c].pc = "close")]_vars
    /\ [][\A c \in Conns :
            (wrk[c].pc = "close" /\ wrk'[c] # wrk[c]) =>
               /\ socks'[c] = "closed"
               /\ wrk'[c].pc \in {"done", "crashed"}]_vars

\* the first connection is finished and closed, the second is served, and
\* the third, admitted in its place, is about to get its worker
C20_OneGoneOneServedOneAdmitted ==
    \E c, d, e \in Conns :
       /\ wrk[c].pc = "done" /\ socks[c] = "closed"
       /\ tcpClients = <<d, e>>
       /\ wrk[d].pc = "read"
       /\ AboutToSpawn(e)

====
